---- MODULE Spec2Model ----
(***************************************************************************)
(* Model of Miner::send_and_confirm_batch (src/src/send_and_confirm.rs).   *)
(*                                                                         *)
(* The batch call is a sequential program: a for loop over the instruction *)
(* groups, and inside it a balance query, a blockhash query, an optional   *)
(* simulation loop, a sign step and a submission loop.  Every await of the *)
(* code is one action of the model; the answer of the network is chosen    *)
(* with \E from the answers the RPC interface can give.  The variables are *)
(* the arguments of the call, its locals, its position (pc) and its        *)
(* result, plus a record of the calls made on the network (calls, touched, *)
(* accepted, first_sent, last_sent, units_reported, fetched, spent_all,    *)
(* ledger_status), which the code does not read.                           *)
(***************************************************************************)
EXTENDS Integers, Sequences, FiniteSets, TLC

VARIABLES
    txs_ixs,        \* argument: Vec<Vec<Instruction>>
    dynamic_cus,    \* argument
    skip_confirm,   \* argument
    priority_fee,   \* self.priority_fee
    pc,             \* position in the function body
    idx,            \* position of the for loop in txs_ixs (1-based, 0 before the first)
    balance,        \* local: the answer of the balance query of the current element
    hash,           \* local: blockhash of the current element
    slot,           \* local: slot of the current element's blockhash
    tx,             \* local: the transaction draft of the current element
    send_cfg,       \* local: RpcSendTransactionConfig of the current element
    sim_attempts,   \* local counter of the 'simulate loop
    attempts,       \* local counter of the submission loop
    signatures,     \* local: Vec<Signature> collected so far
    result,         \* the value returned by the call
    calls,          \* network record: calls made for the current element, by kind
    touched,        \* network record: elements for which any network call was made
    accepted,       \* network record: the accepted sends, in the order of acceptance
    first_sent,     \* network record: what the first send of the current element carried
    last_sent,      \* network record: what the latest send of the current element carried
    units_reported, \* network record: units_consumed of the simulation that left the loop
    fetched,        \* network record: the answer of the current element's blockhash query
    spent_all,      \* network record: every accepted element so far used up its retries
    ledger_status   \* network: confirmation status of the latest accepted signature

vars == <<txs_ixs, dynamic_cus, skip_confirm, priority_fee, pc, idx, balance, hash, slot, tx,
          send_cfg, sim_attempts, attempts, signatures, result, calls, touched,
          accepted, first_sent, last_sent, units_reported, fetched, spent_all,
          ledger_status>>

\* ---------------------------------------------------------------- bounds

\* longest batch explored
MaxBatch == 2
\* simulations that answer with neither an error nor a unit count, per element
MaxEmptySims == 1

\* ------------------------------------------------------------- constants

RPC_RETRIES == 0
SIMULATION_RETRIES == 4
GATEWAY_RETRIES == 4
CONFIRM_RETRIES == 4
CONFIRM_DELAY == 5000
GATEWAY_DELAY == 2000

\* the margin added to units_consumed
CU_MARGIN == 1000
\* 2^16.  TLC's integers stop below 2^31, so a u64 or u32 quantity n is held exactly as
\* [hi, lo] with n = hi * 2^16 + lo and lo < 2^16; a u32 has hi < 2^16 as well
LIMB == 65536

Num(n) == [hi |-> n \div LIMB, lo |-> n % LIMB]
FromLimbs(h, l) == [hi |-> h, lo |-> l]

\* n + m without any width, m < 2^16
AddExact(n, m) == [hi |-> n.hi + ((n.lo + m) \div LIMB), lo |-> (n.lo + m) % LIMB]

\* n as u32: the low 32 bits
AsU32(n) == [hi |-> n.hi % LIMB, lo |-> n.lo]

\* a + m in u32, wrapping (a build with overflow checks panics instead of wrapping)
WrappingAddU32(a, m) == [hi |-> (a.hi + ((a.lo + m) \div LIMB)) % LIMB, lo |-> (a.lo + m) % LIMB]

\* ---------------------------------------------------------------- inputs

Ix(name) == [program |-> "caller", op |-> name, arg |-> Num(0)]

\* instruction groups a caller passes
Groups == { <<Ix("ixA")>>, <<Ix("ixB"), Ix("ixA")>> }

RECURSIVE SeqsUpTo(_, _)
SeqsUpTo(S, n) ==
    IF n = 0 THEN { <<>> }
    ELSE LET shorter == SeqsUpTo(S, n - 1)
         IN  shorter \cup { Append(s, g) : s \in { t \in shorter : Len(t) = n - 1 }, g \in S }

Batches == SeqsUpTo(Groups, MaxBatch)

PriorityFees == { Num(500000) }

\* answers of get_balance: Ok(lamports), u64
Balances == { 0, 1 }

\* answers of get_latest_blockhash_with_commitment: Ok((hash, slot))
BlockhashAnswers == { <<"hashA", 100>>, <<"hashB", 200>> }

\* units_consumed values a simulation reports (u64)
\* 50_000; 2^32 - 1000; 2^32 + 50_000
UnitsConsumed == { Num(50000), FromLimbs(LIMB - 1, LIMB - CU_MARGIN), FromLimbs(LIMB, 50000) }

\* answers of simulate_transaction_with_config
SimAnswers ==
    { [ok |-> FALSE, err |-> FALSE, has_units |-> FALSE, units |-> Num(0)] }
      \cup { [ok |-> TRUE, err |-> TRUE, has_units |-> FALSE, units |-> Num(0)],
             [ok |-> TRUE, err |-> TRUE, has_units |-> TRUE, units |-> Num(50000)],
             [ok |-> TRUE, err |-> FALSE, has_units |-> FALSE, units |-> Num(0)] }
      \cup { [ok |-> TRUE, err |-> FALSE, has_units |-> TRUE, units |-> u] : u \in UnitsConsumed }

\* signatures the network returns from an accepted send
Sigs == { "sigA", "sigB" }

\* TransactionConfirmationStatus, with "unseen" for a signature with no status yet
StatusOrder == << "unseen", "processed", "confirmed", "finalized" >>

\* ----------------------------------------------------------------- values

None == [some |-> FALSE, value |-> 0]
Some(v) == [some |-> TRUE, value |-> v]
NoHash == "none"
NoSlot == 0
NoTx == [instructions |-> <<>>, recent_blockhash |-> NoHash, signed |-> FALSE]
NoCfg == [skip_preflight |-> FALSE, max_retries |-> 0, min_context_slot |-> NoSlot]
NoSend == [tx |-> NoTx, cfg |-> NoCfg]
NoCalls == [balance |-> 0, blockhash |-> 0, simulate |-> 0, sim_err |-> 0, sim_empty |-> 0,
            sign |-> 0, send |-> 0, sleep |-> 0, slept_ms |-> 0]
NoAnswer == <<NoHash, NoSlot>>
Pending == [tag |-> "Pending"]

\* ClientError { request: None, kind: ClientErrorKind::Custom(msg) }
CustomError(msg) == [tag |-> "Err", request |-> "None", kind |-> "Custom", msg |-> msg]
\* the error of a failed query, returned unchanged by `?`
TransportError(call) == [tag |-> "Err", request |-> call, kind |-> "Transport", msg |-> "transport"]

\* Transaction::new_with_payer(ixs, Some(&signer.pubkey()))
NewWithPayer(ixs) == [instructions |-> ixs, recent_blockhash |-> NoHash, signed |-> FALSE]

SignStale(t, h) == [instructions |-> t.instructions, recent_blockhash |-> t.recent_blockhash, signed |-> TRUE]

\* tx.sign(&[&signer], hash)
Sign(t, h) == [instructions |-> t.instructions, recent_blockhash |-> h, signed |-> TRUE]

\* ComputeBudgetInstruction::set_compute_unit_limit(units: u32)
SetComputeUnitLimit(units) == [program |-> "ComputeBudget", op |-> "SetComputeUnitLimit", arg |-> units]
\* ComputeBudgetInstruction::set_compute_unit_price(micro_lamports: u64)
SetComputeUnitPrice(fee) == [program |-> "ComputeBudget", op |-> "SetComputeUnitPrice", arg |-> fee]

\* units_consumed as u32 + 1000
CuLimit(units_consumed) == WrappingAddU32(AsU32(units_consumed), CU_MARGIN)

\* vec![cu_budget_ix, cu_price_ix] extended by the group's instructions
FinalIxs(ixs, units_consumed, fee) ==
    << SetComputeUnitLimit(CuLimit(units_consumed)), SetComputeUnitPrice(fee) >> \o ixs

InsufficientBalanceStrict(b) == b < 0

\* balance <= 0
InsufficientBalance(b) == b <= 0

SimulationExhaustedEarly(n) == n >= SIMULATION_RETRIES

\* sim_attempts > SIMULATION_RETRIES
SimulationExhausted(n) == n > SIMULATION_RETRIES

GatewayExhaustedEarly(n) == n >= GATEWAY_RETRIES

\* attempts > GATEWAY_RETRIES
GatewayExhausted(n) == n > GATEWAY_RETRIES

SendConfigNoSlot(s) == [skip_preflight |-> TRUE, max_retries |-> RPC_RETRIES, min_context_slot |-> NoSlot]

\* RpcSendTransactionConfig { skip_preflight: true, max_retries: Some(RPC_RETRIES), min_context_slot: Some(slot) }
SendConfig(s) == [skip_preflight |-> TRUE, max_retries |-> RPC_RETRIES, min_context_slot |-> s]

PushFront(v, sig) == <<sig>> \o v

\* signatures.push(sig)
Push(v, sig) == Append(v, sig)

Count(kind) == [calls EXCEPT ![kind] = @ + 1]

\* ------------------------------------------------------------------- Init

Init ==
    /\ txs_ixs \in Batches
    /\ dynamic_cus \in BOOLEAN
    /\ skip_confirm \in BOOLEAN
    /\ priority_fee \in PriorityFees
    /\ pc = "next"
    /\ idx = 0
    /\ balance = None
    /\ hash = NoHash
    /\ slot = NoSlot
    /\ tx = NoTx
    /\ send_cfg = NoCfg
    /\ sim_attempts = 0
    /\ attempts = 0
    /\ signatures = <<>>
    /\ result = Pending
    /\ calls = NoCalls
    /\ touched = {}
    /\ accepted = <<>>
    /\ first_sent = NoSend
    /\ last_sent = NoSend
    /\ units_reported = Num(0)
    /\ fetched = NoAnswer
    /\ spent_all = TRUE
    /\ ledger_status = "unseen"

inputs == <<txs_ixs, dynamic_cus, skip_confirm, priority_fee>>
sendRecord == <<first_sent, last_sent>>

\* the error is swallowed and the query is issued again
PropagateRetrying(call) == /\ result' = result
                           /\ pc' = pc

\* `.await?` on a query: its error is returned to the caller unchanged
Propagate(call) == /\ result' = TransportError(call)
                   /\ pc' = "returned"

AfterDraftSkipSign(dyn) == IF dyn THEN "simulate" ELSE "send"

AfterDraftAlwaysSimulate(dyn) == "simulate"

\* if dynamic_cus { 'simulate: loop .. }, then tx.sign
AfterDraft(dyn) == IF dyn THEN "simulate" ELSE "sign"

\* the error is recorded and the loop goes on to the next element
ReturnAndContinue(r) == /\ result' = r
                        /\ pc' = IF r.tag = "Err" THEN "next" ELSE "returned"

\* an error returns the signatures collected so far
ReturnPartial(r) == /\ result' = IF r.tag = "Err" THEN [tag |-> "Ok", sigs |-> signatures] ELSE r
                    /\ pc' = "returned"

\* return of the call
Return(r) == /\ result' = r
             /\ pc' = "returned"

\* ---------------------------------------------------------------- actions

\* for ixs in txs_ixs.iter() { ... }  Ok(signatures)
NextElement ==
    /\ pc = "next"
    /\ IF idx < Len(txs_ixs)
       THEN /\ idx' = idx + 1
            /\ pc' = "balance"
            /\ result' = result
       ELSE /\ idx' = idx
            /\ Return([tag |-> "Ok", sigs |-> signatures])
    /\ balance' = None
    /\ hash' = NoHash
    /\ slot' = NoSlot
    /\ tx' = NoTx
    /\ send_cfg' = NoCfg
    /\ sim_attempts' = 0
    /\ attempts' = 0
    /\ calls' = NoCalls
    /\ first_sent' = NoSend
    /\ last_sent' = NoSend
    /\ units_reported' = Num(0)
    /\ fetched' = NoAnswer
    /\ UNCHANGED <<inputs, signatures, touched, accepted, spent_all, ledger_status>>

\* client.get_balance(&signer.pubkey()).await? and the balance check
GetBalance ==
    /\ pc = "balance"
    /\ calls' = Count("balance")
    /\ touched' = touched \cup {idx}
    /\ \/ /\ Propagate("get_balance")
          /\ balance' = balance
       \/ \E b \in Balances :
            /\ balance' = Some(b)
            /\ IF InsufficientBalance(b)
               THEN Return(CustomError("Insufficient SOL balance"))
               ELSE /\ pc' = "blockhash"
                    /\ result' = result
    /\ UNCHANGED <<inputs, idx, hash, slot, tx, send_cfg, sim_attempts, attempts, signatures,
                   accepted, sendRecord, units_reported, fetched, spent_all, ledger_status>>

\* client.get_latest_blockhash_with_commitment(..).await? and Transaction::new_with_payer
GetBlockhash ==
    /\ pc = "blockhash"
    /\ calls' = Count("blockhash")
    /\ touched' = touched \cup {idx}
    /\ \/ /\ Propagate("get_latest_blockhash")
          /\ UNCHANGED <<hash, slot, tx, fetched>>
       \/ \E a \in BlockhashAnswers :
            /\ fetched' = a
            /\ hash' = a[1]
            /\ slot' = a[2]
            /\ tx' = NewWithPayer(txs_ixs[idx])
            /\ pc' = AfterDraft(dynamic_cus)
            /\ result' = result
    /\ UNCHANGED <<inputs, idx, balance, send_cfg, sim_attempts, attempts, signatures,
                   accepted, sendRecord, units_reported, spent_all, ledger_status>>

\* the two error arms of the match: sim_attempts += 1, and past the ceiling the call
\* returns; otherwise the loop repeats with the same draft
SimulationError ==
    /\ calls' = [calls EXCEPT !.simulate = @ + 1, !.sim_err = @ + 1]
    /\ sim_attempts' = sim_attempts + 1
    /\ IF SimulationExhausted(sim_attempts + 1)
       THEN Return(CustomError("Simulation failed"))
       ELSE /\ pc' = "simulate"
            /\ result' = result
    /\ UNCHANGED <<tx, units_reported>>

\* one pass of the 'simulate loop: simulate_transaction_with_config(&tx, ..).await and the match
Simulate ==
    /\ pc = "simulate"
    /\ touched' = touched \cup {idx}
    /\ \E a \in SimAnswers :
         IF ~a.ok
         THEN \* Err(err)
              SimulationError
         ELSE IF a.err
         THEN \* Ok with value.err
              SimulationError
         ELSE IF a.has_units
         THEN \* Ok with units_consumed: rebuild the draft and leave the loop
              /\ calls' = Count("simulate")
              /\ tx' = NewWithPayer(FinalIxs(txs_ixs[idx], a.units, priority_fee))
              /\ units_reported' = a.units
              /\ pc' = "sign"
              /\ UNCHANGED <<sim_attempts, result>>
         ELSE \* Ok with neither: no arm of the match applies, the loop repeats
              /\ calls.sim_empty < MaxEmptySims
              /\ calls' = [calls EXCEPT !.simulate = @ + 1, !.sim_empty = @ + 1]
              /\ UNCHANGED <<pc, tx, units_reported, sim_attempts, result>>
    /\ UNCHANGED <<inputs, idx, balance, hash, slot, send_cfg, attempts, signatures,
                   accepted, sendRecord, fetched, spent_all, ledger_status>>

\* the submission loop goes on counting where the simulation loop stopped
SignTxSharedCounter ==
    /\ pc = "sign"
    /\ tx' = Sign(tx, hash)
    /\ send_cfg' = SendConfig(slot)
    /\ attempts' = sim_attempts
    /\ calls' = Count("sign")
    /\ pc' = "send"
    /\ UNCHANGED <<inputs, idx, balance, hash, slot, sim_attempts, signatures, result, touched,
                   accepted, sendRecord, units_reported, fetched, spent_all, ledger_status>>

\* tx.sign(&[&signer], hash); let send_cfg = ..; let mut attempts = 0
SignTx ==
    /\ pc = "sign"
    /\ tx' = Sign(tx, hash)
    /\ send_cfg' = SendConfig(slot)
    /\ attempts' = 0
    /\ calls' = Count("sign")
    /\ pc' = "send"
    /\ UNCHANGED <<inputs, idx, balance, hash, slot, sim_attempts, signatures, result, touched,
                   accepted, sendRecord, units_reported, fetched, spent_all, ledger_status>>

\* where the loop goes after signatures.push(sig): `if skip_confirm { break; }`, then the
\* placeholder comment, a println and `break`: both paths leave the submission loop
AfterAccepted(skip) == IF skip THEN "next" ELSE "next"

\* the wait is followed by a fresh blockhash and a new signature
SleepRefreshAndRetry ==
    /\ calls' = [calls EXCEPT !.send = @ + 1, !.sleep = @ + 1, !.sign = @ + 1]
    /\ \E a \in BlockhashAnswers :
         /\ hash' = a[1]
         /\ slot' = a[2]
         /\ tx' = Sign(tx, a[1])
    /\ pc' = "send"
    /\ result' = result

\* the loop repeats at once
RetryWithoutSleep ==
    /\ calls' = Count("send")
    /\ pc' = "send"
    /\ result' = result
    /\ UNCHANGED <<hash, slot, tx>>

\* std::thread::sleep(GATEWAY_DELAY), then the loop repeats with the same &tx
SleepAndRetry ==
    /\ calls' = [calls EXCEPT !.send = @ + 1, !.sleep = @ + 1, !.slept_ms = @ + GATEWAY_DELAY]
    /\ pc' = "send"
    /\ result' = result
    /\ UNCHANGED <<hash, slot, tx>>

\* one pass of the submission loop: send_transaction_with_config(&tx, send_cfg.clone()).await
SendTx ==
    /\ pc = "send"
    /\ touched' = touched \cup {idx}
    /\ first_sent' = IF calls.send = 0 THEN [tx |-> tx, cfg |-> send_cfg] ELSE first_sent
    /\ last_sent' = [tx |-> tx, cfg |-> send_cfg]
    /\ \/ \E sig \in Sigs :
            \* Ok(sig)
            /\ signatures' = Push(signatures, sig)
            /\ accepted' = Append(accepted, [element |-> idx, sig |-> sig])
            /\ ledger_status' = "unseen"
            /\ spent_all' = (/\ spent_all
                             /\ attempts = GATEWAY_RETRIES
                             /\ dynamic_cus => sim_attempts = SIMULATION_RETRIES)
            /\ calls' = Count("send")
            /\ pc' = AfterAccepted(skip_confirm)
            /\ UNCHANGED <<attempts, result, hash, slot, tx>>
       \/ \* Err(err)
          /\ attempts' = attempts + 1
          /\ IF GatewayExhausted(attempts + 1)
             THEN /\ Return(CustomError("Max retries exceeded"))
                  /\ calls' = Count("send")
                  /\ UNCHANGED <<hash, slot, tx>>
             ELSE SleepAndRetry
          /\ UNCHANGED <<signatures, accepted, spent_all, ledger_status>>
    /\ UNCHANGED <<inputs, idx, balance, send_cfg, sim_attempts, units_reported, fetched>>

Rank(status) == CHOOSE i \in 1..Len(StatusOrder) : StatusOrder[i] = status

\* the network: the latest accepted signature moves up one confirmation status
LedgerProgress ==
    /\ Len(accepted) > 0
    /\ Rank(ledger_status) < Len(StatusOrder)
    /\ ledger_status' = StatusOrder[Rank(ledger_status) + 1]
    /\ UNCHANGED <<inputs, pc, idx, balance, hash, slot, tx, send_cfg, sim_attempts, attempts,
                   signatures, result, calls, touched, accepted, sendRecord, units_reported,
                   fetched, spent_all>>

Next ==
    \/ NextElement
    \/ GetBalance
    \/ GetBlockhash
    \/ Simulate
    \/ SignTx
    \/ SendTx
    \/ LedgerProgress

Spec == Init /\ [][Next]_vars

\* ------------------------------------------------------------ properties

\* the call has returned ClientErrorKind::Custom(msg)
ReturnedCustom(msg) ==
    /\ pc = "returned"
    /\ result.tag = "Err"
    /\ result.kind = "Custom"
    /\ result.msg = msg

\* the current element has just had a send accepted
JustAccepted == pc = "next" /\ idx >= 1

\* C1: submitter retry.  GATEWAY_RETRIES + 1 failed sends in a row make the call return
\* "Max retries exceeded" after exactly that many send calls of the element; k fewer-than-
\* that failures followed by an accepted send give the element the signature that send
\* returned, after exactly k + 1 send calls, and no send of the element follows: sends
\* are issued only while the element has no accepted send.
C1_SubmitterRetry ==
    /\ ReturnedCustom("Max retries exceeded") =>
         /\ attempts = GATEWAY_RETRIES + 1
         /\ calls.send = GATEWAY_RETRIES + 1
         /\ Len(accepted) = idx - 1
    /\ attempts > GATEWAY_RETRIES => ReturnedCustom("Max retries exceeded")
    /\ pc = "send" =>
         /\ calls.send = attempts
         /\ Len(accepted) = idx - 1
    /\ JustAccepted =>
         /\ attempts <= GATEWAY_RETRIES
         /\ calls.send = attempts + 1
         /\ Len(signatures) = idx
         /\ Len(accepted) = idx
         /\ accepted[idx].element = idx
         /\ signatures[idx] = accepted[idx].sig

\* an element accepted at its last permitted send, after GATEWAY_RETRIES failures
C1_Witness ==
    /\ JustAccepted
    /\ attempts = GATEWAY_RETRIES
    /\ calls.send = GATEWAY_RETRIES + 1

\* the draft is the one built from the group alone: Transaction::new_with_payer(ixs, ..)
IsOriginalDraft(t, ixs) ==
    /\ t.instructions = ixs
    /\ ~t.signed

\* the instruction list is two compute-budget instructions followed by the group
IsRebuiltList(list, ixs) ==
    /\ Len(list) = Len(ixs) + 2
    /\ list[1].op = "SetComputeUnitLimit"
    /\ list[2].op = "SetComputeUnitPrice"
    /\ SubSeq(list, 3, Len(list)) = ixs

\* C2: fee optimizer retry in dynamic-cost mode.  On-chain and transport simulation
\* errors advance one shared counter; while it is at most SIMULATION_RETRIES the same
\* draft is simulated again, and a simulation that then reports a unit count leaves the
\* loop with the rebuilt draft, unsigned, on the way to signing; SIMULATION_RETRIES + 1
\* errors make the call return "Simulation failed" with no sign and no send call of
\* the element.
C2_FeeOptimizerRetry ==
    /\ sim_attempts = calls.sim_err
    /\ pc = "simulate" =>
         /\ dynamic_cus
         /\ sim_attempts <= SIMULATION_RETRIES
         /\ calls.simulate = calls.sim_err + calls.sim_empty
         /\ IsOriginalDraft(tx, txs_ixs[idx])
         /\ calls.sign = 0
         /\ calls.send = 0
    /\ (dynamic_cus /\ pc = "sign") =>
         /\ sim_attempts <= SIMULATION_RETRIES
         /\ calls.simulate = calls.sim_err + calls.sim_empty + 1
         /\ IsRebuiltList(tx.instructions, txs_ixs[idx])
         /\ ~tx.signed
         /\ calls.sign = 0
         /\ calls.send = 0
    /\ sim_attempts > SIMULATION_RETRIES => ReturnedCustom("Simulation failed")
    /\ ReturnedCustom("Simulation failed") =>
         /\ dynamic_cus
         /\ sim_attempts = SIMULATION_RETRIES + 1
         /\ calls.simulate = SIMULATION_RETRIES + 1 + calls.sim_empty
         /\ calls.sign = 0
         /\ calls.send = 0
         /\ Len(accepted) = idx - 1

\* SIMULATION_RETRIES errors, then a simulation with a unit count: about to sign
C2_Witness ==
    /\ dynamic_cus
    /\ pc = "sign"
    /\ sim_attempts = SIMULATION_RETRIES
    /\ calls.sim_empty = 0
    /\ calls.simulate = SIMULATION_RETRIES + 1

\* C3: a simulation that answers with neither an error nor a unit count is counted as
\* a retry: every simulation that did not leave the loop advanced sim_attempts, so the
\* loop makes at most SIMULATION_RETRIES + 1 simulations.
C3_EmptySimulationCounted ==
    /\ pc = "simulate" => calls.simulate = sim_attempts
    /\ calls.simulate <= SIMULATION_RETRIES + 1

\* C4: with skip_confirm false the call returns the signatures only when the latest
\* accepted signature has reached the confirmation threshold ("confirmed"); otherwise
\* it returns a confirmation timeout.
C4_ConfirmedBeforeSuccess ==
    (pc = "returned" /\ ~skip_confirm /\ result.tag = "Ok" /\ Len(result.sigs) > 0) =>
        Rank(ledger_status) >= Rank("confirmed")

\* C5: preflight.  A balance answer that is not strictly positive makes the call return
\* "Insufficient SOL balance" at once, the balance query being the element's only
\* network call; every later phase of an element runs on a strictly positive balance.
C5_Preflight ==
    /\ (balance.some /\ balance.value <= 0) => ReturnedCustom("Insufficient SOL balance")
    /\ ReturnedCustom("Insufficient SOL balance") =>
         /\ balance.some
         /\ balance.value <= 0
         /\ calls = [NoCalls EXCEPT !.balance = 1]
         /\ Len(accepted) = idx - 1
    /\ pc \in {"blockhash", "simulate", "sign", "send"} =>
         /\ balance.some
         /\ balance.value > 0
         /\ calls.balance = 1

\* the second element stopped by its balance, after the first was submitted
C5_Witness ==
    /\ ReturnedCustom("Insufficient SOL balance")
    /\ idx = 2
    /\ Len(accepted) = 1

\* C6: abort semantics.  When element idx fails terminally the call has returned the
\* error: the elements with any network call are exactly 1..idx, and exactly the
\* idx - 1 elements before it have a signature.
C6_Abort ==
    /\ touched \subseteq 1..idx
    /\ result.tag = "Err" =>
         /\ pc = "returned"
         /\ idx <= Len(txs_ixs)
         /\ touched = 1..idx
         /\ Len(signatures) = idx - 1
         /\ Len(accepted) = idx - 1
         /\ \A i \in 1..Len(accepted) : accepted[i].element < idx

\* the first element of a longer batch failed in the submission phase
C6_Witness ==
    /\ ReturnedCustom("Max retries exceeded")
    /\ idx = 1
    /\ Len(txs_ixs) > 1

\* the errors the call returns when its first element fails
ErrorsAtFirstElement ==
    { CustomError(m) : m \in {"Insufficient SOL balance", "Simulation failed", "Max retries exceeded"} }
      \cup { TransportError(c) : c \in {"get_balance", "get_latest_blockhash"} }

\* C7: the returned error identifies the element that failed: an error returned for a
\* failure at a later element is none of the errors returned for a failure at the
\* first element.
C7_ErrorIdentifiesElement ==
    (pc = "returned" /\ result.tag = "Err") =>
        /\ idx = 1 => result \in ErrorsAtFirstElement
        /\ idx # 1 => result \notin ErrorsAtFirstElement

\* C8: ordering.  A call that returns the signature list returns one signature per
\* instruction group, the i-th being the one the network returned from the accepted
\* send of the i-th group, whatever the number of retries.
C8_Ordering ==
    /\ \A i \in 1..Len(accepted) : accepted[i].element = i
    /\ (pc = "returned" /\ result.tag = "Ok") =>
         /\ Len(result.sigs) = Len(txs_ixs)
         /\ Len(accepted) = Len(txs_ixs)
         /\ \A i \in 1..Len(txs_ixs) : result.sigs[i] = accepted[i].sig

\* a returned list whose first two signatures differ
C8_Witness ==
    /\ pc = "returned"
    /\ result.tag = "Ok"
    /\ Len(result.sigs) >= 2
    /\ result.sigs[1] # result.sigs[2]

\* C9: idempotent resubmission.  The draft is signed once, after the fee optimizer and
\* before the first send, with the element's blockhash; every send of the element
\* carries that same signed transaction.
C9_IdempotentResubmission ==
    /\ calls.sign <= 1
    /\ pc \in {"balance", "blockhash", "simulate", "sign"} =>
         /\ calls.sign = 0
         /\ calls.send = 0
         /\ ~tx.signed
    /\ pc = "send" =>
         /\ calls.sign = 1
         /\ tx.signed
         /\ tx.recent_blockhash = hash
         /\ hash # NoHash
         /\ IF dynamic_cus
            THEN IsRebuiltList(tx.instructions, txs_ixs[idx])
            ELSE tx.instructions = txs_ixs[idx]
    /\ calls.send >= 1 =>
         /\ calls.sign = 1
         /\ first_sent = last_sent
         /\ last_sent.tx = tx
         /\ tx.signed
         /\ tx.recent_blockhash = hash

\* an element on its third send or later
C9_Witness ==
    /\ pc = "send"
    /\ calls.send >= 2
    /\ attempts >= 2

\* C10: fee optimizer rebuild.  After a simulation that reports units_consumed = c the
\* signed draft holds set_compute_unit_limit(c + 1000), set_compute_unit_price(fee) and
\* then the group's instructions in their order.
C10_RebuiltDraft ==
    (dynamic_cus /\ tx.signed) =>
        /\ Len(tx.instructions) = Len(txs_ixs[idx]) + 2
        /\ tx.instructions =
             << SetComputeUnitLimit(AddExact(units_reported, CU_MARGIN)),
                SetComputeUnitPrice(priority_fee) >> \o txs_ixs[idx]

\* no instruction of the list is a compute-budget instruction
NoBudgetInstruction(list) == \A i \in 1..Len(list) : list[i].program # "ComputeBudget"

\* C11: with dynamic_cus false the fee optimizer is skipped for every element: no
\* simulation is issued, and the transaction signed and sent holds exactly the group's
\* instructions, with no compute-budget instruction.
C11_StaticModeSkipsOptimizer ==
    ~dynamic_cus =>
        /\ pc # "simulate"
        /\ calls.simulate = 0
        /\ pc \in {"sign", "send"} =>
             /\ tx.instructions = txs_ixs[idx]
             /\ NoBudgetInstruction(tx.instructions)
        /\ calls.send >= 1 =>
             /\ last_sent.tx.signed
             /\ last_sent.tx.instructions = txs_ixs[idx]
             /\ first_sent.tx.instructions = txs_ixs[idx]
             /\ NoBudgetInstruction(last_sent.tx.instructions)

\* the second element accepted in static mode
C11_Witness ==
    /\ ~dynamic_cus
    /\ JustAccepted
    /\ idx = 2
    /\ calls.send >= 1

\* C12: the call returns either the signature list, and then every element of the
\* batch had an accepted send, or one error, which carries no signature even when
\* earlier elements were accepted.
C12_Outcome ==
    /\ pc # "returned" => result.tag = "Pending"
    /\ pc = "returned" =>
         /\ result.tag \in {"Ok", "Err"}
         /\ result.tag = "Ok" =>
              /\ DOMAIN result = {"tag", "sigs"}
              /\ Len(accepted) = Len(txs_ixs)
              /\ Len(result.sigs) = Len(txs_ixs)
              /\ \A i \in 1..Len(txs_ixs) : result.sigs[i] = accepted[i].sig
         /\ result.tag = "Err" =>
              /\ DOMAIN result = {"tag", "request", "kind", "msg"}
              /\ Len(accepted) < Len(txs_ixs)

\* an error returned after an earlier element had been accepted
C12_Witness ==
    /\ pc = "returned"
    /\ result.tag = "Err"
    /\ Len(accepted) >= 1
    /\ Len(signatures) >= 1

\* C13: compute budget arithmetic.  The limit placed in the rebuilt draft equals the
\* reported units_consumed plus 1000, with no loss of high bits and no wrap.
C13_BudgetArithmetic ==
    (dynamic_cus /\ pc \in {"sign", "send"}) =>
        /\ AsU32(units_reported) = units_reported
        /\ tx.instructions[1].arg = AddExact(units_reported, CU_MARGIN)

\* C14: phase order and sequential processing.  Within an element the calls come as
\* balance, blockhash, simulations, sign, sends; an element's first call is issued
\* only when every earlier element has an accepted send, and each element starts with
\* its own balance query.
C14_PhaseOrder ==
    /\ pc = "balance" => calls = NoCalls
    /\ pc = "blockhash" => calls = [NoCalls EXCEPT !.balance = 1]
    /\ pc = "simulate" =>
         /\ calls.balance = 1 /\ calls.blockhash = 1
         /\ calls.sign = 0 /\ calls.send = 0
    /\ pc = "sign" =>
         /\ calls.balance = 1 /\ calls.blockhash = 1
         /\ calls.simulate >= (IF dynamic_cus THEN 1 ELSE 0)
         /\ calls.sign = 0 /\ calls.send = 0
    /\ pc = "send" =>
         /\ calls.balance = 1 /\ calls.blockhash = 1
         /\ calls.simulate >= (IF dynamic_cus THEN 1 ELSE 0)
         /\ calls.sign = 1
    /\ calls.send >= 1 => calls.sign = 1
    /\ calls.sign >= 1 => calls.blockhash = 1
    /\ calls.simulate >= 1 => calls.blockhash = 1
    /\ calls.blockhash >= 1 => calls.balance = 1
    /\ \A e \in touched : e <= Len(accepted) + 1
    /\ pc \in {"balance", "blockhash", "simulate", "sign", "send"} =>
         /\ Len(accepted) = idx - 1
         /\ touched \subseteq 1..idx
         /\ \A e \in 1..(idx - 1) : e \in touched

\* the second element in its submission loop after several simulations
C14_Witness ==
    /\ pc = "send"
    /\ idx = 2
    /\ calls.simulate >= 2
    /\ calls.send >= 1

\* C15: blockhash acquisition.  The blockhash query is issued once per element that
\* passes preflight, before any simulation or send; hash and slot stay those of that
\* answer through simulation and submission retries, and the draft is signed with it.
C15_BlockhashOnce ==
    /\ calls.blockhash <= 1
    /\ calls.blockhash = 0 =>
         /\ calls.simulate = 0 /\ calls.sign = 0 /\ calls.send = 0
         /\ fetched = NoAnswer
    /\ pc \in {"simulate", "sign", "send"} =>
         /\ calls.blockhash = 1
         /\ fetched \in BlockhashAnswers
         /\ hash = fetched[1]
         /\ slot = fetched[2]
    /\ tx.signed =>
         /\ calls.blockhash = 1
         /\ tx.recent_blockhash = fetched[1]
    /\ calls.send >= 1 => last_sent.tx.recent_blockhash = fetched[1]

\* a draft signed after SIMULATION_RETRIES simulation errors and sent again after a failure
C15_Witness ==
    /\ pc = "send"
    /\ sim_attempts = SIMULATION_RETRIES
    /\ attempts >= 1
    /\ tx.signed

\* C16: every send of an element carries skip_preflight = true, max_retries =
\* RPC_RETRIES and min_context_slot equal to the slot of that element's blockhash query.
C16_SendConfig ==
    calls.send >= 1 =>
        /\ first_sent.cfg = last_sent.cfg
        /\ last_sent.cfg.skip_preflight
        /\ last_sent.cfg.max_retries = RPC_RETRIES
        /\ RPC_RETRIES = 0
        /\ last_sent.cfg.min_context_slot = fetched[2]
        /\ fetched \in BlockhashAnswers

\* a resend of the second element
C16_Witness ==
    /\ idx = 2
    /\ pc = "send"
    /\ calls.send >= 2

\* C17: retry delays.  One wait of GATEWAY_DELAY separates two consecutive sends of an
\* element: k failed sends followed by an accepted one wait k times, the failure that
\* exhausts the ceiling is not followed by a wait, and nothing waits before the first
\* send, so simulation retries do not wait.
C17_RetryDelays ==
    /\ calls.slept_ms = calls.sleep * GATEWAY_DELAY
    /\ pc \in {"balance", "blockhash", "simulate", "sign"} => calls.sleep = 0
    /\ ReturnedCustom("Simulation failed") => calls.sleep = 0
    /\ pc = "send" =>
         /\ calls.sleep = calls.send
         /\ calls.sleep = attempts
    /\ JustAccepted =>
         /\ calls.sleep = calls.send - 1
         /\ calls.sleep = attempts
    /\ ReturnedCustom("Max retries exceeded") =>
         /\ calls.send = GATEWAY_RETRIES + 1
         /\ calls.sleep = GATEWAY_RETRIES

\* the ceiling exhausted: five failures, four waits
C17_Witness ==
    /\ ReturnedCustom("Max retries exceeded")
    /\ calls.sleep = GATEWAY_RETRIES
    /\ calls.slept_ms = GATEWAY_RETRIES * GATEWAY_DELAY

\* C18: retry budgets are per phase and per element.  Both counters are zero when an
\* element starts, the submission counter counts only the element's own failed sends
\* whatever the simulation counter reached, and a batch whose every element used up
\* both budgets before being accepted returns the full signature list.
C18_IndependentBudgets ==
    /\ pc \in {"balance", "blockhash"} => (sim_attempts = 0 /\ attempts = 0)
    /\ pc \in {"simulate", "sign"} => attempts = 0
    /\ sim_attempts = calls.sim_err
    /\ pc = "send" =>
         /\ attempts = calls.send
         /\ attempts <= GATEWAY_RETRIES
    /\ JustAccepted => attempts = calls.send - 1
    /\ (spent_all /\ Len(accepted) = Len(txs_ixs)) => result.tag # "Err"
    /\ (spent_all /\ pc = "returned" /\ result.tag = "Ok") =>
         Len(result.sigs) = Len(txs_ixs)

\* a batch of two or more returned in full, every element at both ceilings
C18_Witness ==
    /\ pc = "returned"
    /\ result.tag = "Ok"
    /\ dynamic_cus
    /\ spent_all
    /\ Len(result.sigs) >= 2

\* C19: termination and call bounds.  Per element the call issues at most one balance
\* query, one blockhash query, SIMULATION_RETRIES + 1 simulations and
\* GATEWAY_RETRIES + 1 sends.
C19_CallBounds ==
    /\ calls.balance <= 1
    /\ calls.blockhash <= 1
    /\ calls.simulate <= SIMULATION_RETRIES + 1
    /\ calls.send <= GATEWAY_RETRIES + 1

\* the call has returned the error of a query
ReturnedTransport(call) ==
    /\ pc = "returned"
    /\ result.tag = "Err"
    /\ result.kind = "Transport"
    /\ result.request = call

\* C20: a transport error of the balance query or of the blockhash query is returned
\* at once: the failing query was called once, nothing of the element follows it, no
\* later element is touched, and no retry counter moved.
C20_QueryErrorsNotRetried ==
    /\ calls.balance <= 1
    /\ calls.blockhash <= 1
    /\ (pc = "returned" /\ result.tag = "Err" /\ result.kind = "Transport") =>
         result.request \in {"get_balance", "get_latest_blockhash"}
    /\ ReturnedTransport("get_balance") =>
         /\ calls = [NoCalls EXCEPT !.balance = 1]
         /\ ~balance.some
    /\ ReturnedTransport("get_latest_blockhash") =>
         /\ calls = [NoCalls EXCEPT !.balance = 1, !.blockhash = 1]
         /\ fetched = NoAnswer
    /\ (ReturnedTransport("get_balance") \/ ReturnedTransport("get_latest_blockhash")) =>
         /\ sim_attempts = 0
         /\ attempts = 0
         /\ ~tx.signed
         /\ touched = 1..idx
         /\ Len(accepted) = idx - 1

\* the blockhash query of the second element failed
C20_Witness ==
    /\ ReturnedTransport("get_latest_blockhash")
    /\ idx = 2
    /\ Len(txs_ixs) >= 2

====
